---- MODULE Spec2Model ----
(***************************************************************************)
(* A model of the idorPlus scan pipeline.                                  *)
(*                                                                         *)
(*  - the FuzzEngine (pkg/fuzzer: worker pool, job queue, result queue,    *)
(*    cancellation token, Stats counters) with the runScan feeder and      *)
(*    result drain that drive it;                                          *)
(*  - the pure verdict functions (ResponseComparator.Compare,              *)
(*    IDORDetector.Detect / DetectWithEvidence, determineSeverity);        *)
(*  - file output (os.WriteFile under a umask, the WriteFile helpers and   *)
(*    the reporters that call them);                                       *)
(*  - replaceID and the URL each dispatched request goes to;               *)
(*  - the AuthMatrixTester (AddSession, TestEndpoint, analyzeMatrix);      *)
(*  - the scan command from flag parsing to exit (baselines, engine run,   *)
(*    report);                                                             *)
(*  - IdentifierAnalyzer.DetectType, in both copies the source holds;      *)
(*  - NumericGenerator.Generate;                                           *)
(*  - the ProxyManager (NewProxyManager, GetNext from several goroutines,  *)
(*    AddProxy, RemoveProxy).                                              *)
(*                                                                         *)
(* Go channel semantics used throughout: a select with several ready cases *)
(* picks any one of them; a send on a closed channel and a close of a      *)
(* closed channel panic, which ends the whole process (panic is absorbing).*)
(***************************************************************************)
EXTENDS Integers, Sequences, FiniteSets, TLC

\* ------------------------------------------------------------ bounds
\* number of payloads the feeder has to submit
MaxJobs == 2
\* capacity of fe.Queue and of fe.Results (the code uses max(100, workers*10)
\* for both; blocking on a full channel is what matters, so the model keeps it
\* small)
queueSize == 1
\* worker goroutines started by Start (fe.Workers)
WorkerIds == {"w1", "w2"}
\* the payloads whose response the detector flags (the target's answer to a
\* payload is fixed, and Detect is a function of the response)
VulnerableJobs == {1}

\* ------------------------------------------------------------ program constants
MaxRetries == 3

Jobs == 1..MaxJobs
NoJob == 0
NoneCounted == [total |-> 0, success |-> 0, failed |-> 0, vuln |-> 0]
NoResult == [Job |-> NoJob, Error |-> "nil", StatusCode |-> 0, ContentLen |-> 0,
             IsVulnerable |-> FALSE]

VARIABLES
  cancelled,      \* fe.ctx is done (the engine's cancellation token has fired)
  sigCancelled,   \* runScan's own ctx is done (SIGINT/SIGTERM handler ran)
  started,        \* fe.started
  queue,          \* buffered content of fe.Queue (job ids, FIFO)
  queueClosed,    \* fe.Queue has been closed
  results,        \* buffered content of fe.Results (FuzzResult records, FIFO)
  resultsClosed,  \* fe.Results has been closed
  stats,          \* fe.Stats counters
  wpc,            \* per worker: position in worker()/processJob()
  wjob,           \* per worker: job being processed
  wattempt,       \* per worker: processJob's loop variable attempt
  werr,           \* per worker: processJob's err (or reqErr on the final rate-limit failure)
  wres,           \* per worker: the FuzzResult processJob returned
  fpc,            \* feeder goroutine of runScan: position
  fnext,          \* feeder: index of the next payload
  fcallCancelled, \* history: the token had fired when the pending Submit was called
  accepted,       \* history: jobs for which Submit returned true
  emitted,        \* history: results sent on fe.Results, per job
  spc,            \* a caller of Stop(): position inside Stop
  drainer,        \* Stop's draining goroutine is running
  panic,          \* "" or the runtime panic that ended the process
  det,            \* the IDORDetector under test
  resp,           \* the response handed to the detector
  detected,       \* <<>> or <<b>>: what Detect(resp) returned
  evidence,       \* <<>> or <<r>>: what DetectWithEvidence(resp) returned
  comparison,     \* <<>> or <<c>>: what ValidComparator.Compare(resp) returned
  findings,       \* Reporter.Findings
  files,          \* the file system: per path <<>> (absent) or <<permission bits>>
  umask,          \* the process's file mode creation mask
  format,         \* Reporter.Format
  created,        \* history: paths the tool's writes created
  wrote,          \* history: paths the tool has written successfully
  url,            \* runScan's --url target template (a sequence of characters)
  payloads,       \* runScan's payload list, one per job
  dispatched,     \* history: <<job, URL>> of every request a worker dispatched
  sessions,       \* AuthMatrixTester: session names in the order AddSession got them
  probes,         \* what the target answers per session name and to no session
  matrix,         \* the MatrixResults TestEndpoint has returned, in call order
  scanpc,         \* runScan: position of the command's main goroutine
  invalidResp,    \* runScan: outcome of the invalid-baseline request
  validResp,      \* runScan: outcome of the valid-baseline request
  exitCode,       \* <<>> while the process runs, <<n>> once it has exited with n
  ident,          \* the identifier handed to DetectType (a sequence of characters)
  idTypes,        \* what the DetectType calls on id have returned, in call order
  tries,          \* history, per worker: requests its processJob call has dispatched
  counted,        \* history, per worker: Stats increments its processJob call has made
  count,          \* the argument of NumericGenerator.Generate
  generated,      \* <<>> or <<payloads>>: what Generate(count) returned
  proxies,        \* pm.proxies (parsed URLs, in list order)
  current,        \* pm.current
  enabled,        \* pm.enabled
  gpc,            \* per goroutine calling GetNext: position inside GetNext
  gidx,           \* per goroutine calling GetNext: its local idx
  draws,          \* history: what each returned GetNext call drew and returned
  epoch           \* history: number of AddProxy/RemoveProxy calls so far

engineVars == <<cancelled, sigCancelled, started, queue, queueClosed, results,
                resultsClosed, stats, wpc, wjob, wattempt, werr, wres, fpc, fnext,
                fcallCancelled, accepted, emitted, spc, drainer, panic>>

verdictVars == <<det, resp, detected, evidence, comparison, findings>>

fileVars == <<files, umask, format, created, wrote>>

\* runScan's inputs; nothing assigns them after flag parsing
jobVars == <<url, payloads>>

authVars == <<sessions, probes, matrix>>

scanVars == <<scanpc, invalidResp, validResp, exitCode>>

idVars == <<ident, idTypes>>

genVars == <<count, generated>>

proxyVars == <<proxies, current, enabled, gpc, gidx, draws, epoch>>

\* the engine's history of requests and of counter increments
history == <<dispatched, tries, counted>>

\* what no engine step touches
quietVars == <<verdictVars, fileVars, jobVars, authVars, scanVars, idVars, genVars,
              proxyVars>>

\* everything that is not the engine's, with the dispatch history
otherVars == <<quietVars, history>>

\* everything that is not the detector's and reporter's
notVerdict == <<engineVars, fileVars, jobVars, history, authVars, scanVars, idVars, genVars,
               proxyVars>>

\* everything that is not the file system's
notFile == <<engineVars, verdictVars, jobVars, history, authVars, scanVars, idVars, genVars,
            proxyVars>>

\* everything that is not the auth matrix tester's
notAuth == <<engineVars, verdictVars, fileVars, jobVars, history, scanVars, idVars, genVars,
            proxyVars>>

\* everything that is not the identifier analyzer's
notId == <<engineVars, verdictVars, fileVars, jobVars, history, authVars, scanVars, genVars,
          proxyVars>>

\* everything that is neither runScan's own nor the file system's
notScan == <<engineVars, verdictVars, jobVars, history, authVars, idVars, genVars, proxyVars>>

\* everything that is not the numeric generator's
notGen == <<engineVars, verdictVars, fileVars, jobVars, history, authVars, scanVars, idVars,
            proxyVars>>

\* everything that is not the proxy manager's
notProxy == <<engineVars, verdictVars, fileVars, jobVars, history, authVars, scanVars, idVars,
              genVars>>

vars == <<engineVars, otherVars>>

\* ------------------------------------------------------------ construction
\* NewFuzzEngine + NewStats: nothing started, nothing closed, counters zero
NewFuzzEngine ==
  /\ cancelled = FALSE
  /\ started = FALSE
  /\ queue = <<>>
  /\ queueClosed = FALSE
  /\ results = <<>>
  /\ resultsClosed = FALSE
  /\ stats = [total |-> 0, success |-> 0, failed |-> 0, vuln |-> 0]
  /\ wpc = [w \in WorkerIds |-> "unborn"]
  /\ wjob = [w \in WorkerIds |-> NoJob]
  /\ wattempt = [w \in WorkerIds |-> 0]
  /\ werr = [w \in WorkerIds |-> "nil"]
  /\ wres = [w \in WorkerIds |-> NoResult]
  /\ drainer = FALSE
  /\ panic = ""

EngineInit ==
  /\ NewFuzzEngine
  /\ sigCancelled = FALSE
  /\ fpc = "start"
  /\ fnext = 1
  /\ fcallCancelled = FALSE
  /\ accepted = {}
  /\ emitted = [j \in Jobs |-> 0]
  /\ spc = "idle"
  /\ tries = [w \in WorkerIds |-> 0]
  /\ counted = [w \in WorkerIds |-> NoneCounted]

\* no detector run is under way
VerdictIdle ==
  /\ det = [ValidComparator |-> <<>>, InvalidComparator |-> <<>>,
            Threshold |-> [num |-> 4, den |-> 5], CheckPII |-> TRUE]
  /\ resp = [status |-> 200, len |-> 0, pii |-> {}]
  /\ detected = <<>>
  /\ evidence = <<>>
  /\ comparison = <<>>
  /\ findings = <<>>

\* nothing written yet, in an empty output directory
FilesIdle ==
  /\ files = [p \in {"report", "endpoints"} |-> <<>>]
  /\ umask = {"gw", "ow"}
  /\ format = "json"
  /\ created = {}
  /\ wrote = {}

\* the target template and word list of a plain run; nothing dispatched yet
Placeholder == <<"{", "I", "D", "}">>
Wordlist == << <<"7">>, <<>>, Placeholder >>

JobsIdle ==
  /\ url = <<"u", "/">> \o Placeholder
  /\ payloads = [j \in Jobs |-> Wordlist[((j - 1) % Len(Wordlist)) + 1]]
  /\ dispatched = {}

\* NewAuthMatrixTester: no session, no result; the target denies everybody
AuthIdle ==
  /\ sessions = <<>>
  /\ probes = [k \in {"A", "B", "no_session"} |->
                 [err |-> FALSE, status |-> 403, len |-> 0]]
  /\ matrix = <<>>

\* runScan has taken both baselines and is about to start the engine
ScanIdle ==
  /\ scanpc = "fuzz"
  /\ invalidResp = "ok"
  /\ validResp = "ok"
  /\ exitCode = <<>>

\* no identifier has been classified
IdIdle ==
  /\ ident = <<>>
  /\ idTypes = <<>>

\* Generate has not been called
GenIdle ==
  /\ count = 0
  /\ generated = <<>>

GoIds == {"g1", "g2"}

\* NewProxyManager(nil): no proxy, rotation disabled, nobody inside GetNext
ProxyIdle ==
  /\ proxies = <<>>
  /\ current = 0
  /\ enabled = FALSE
  /\ gpc = [g \in GoIds |-> "idle"]
  /\ gidx = [g \in GoIds |-> 0]
  /\ draws = <<>>
  /\ epoch = 0

Init ==
  EngineInit /\ VerdictIdle /\ FilesIdle /\ JobsIdle /\ AuthIdle /\ ScanIdle /\ IdIdle /\ GenIdle
    /\ ProxyIdle

Running == panic = ""

\* wg counter is zero: every started worker has run its deferred wg.Done()
WgZero == \A w \in WorkerIds : wpc[w] \in {"unborn", "exited"}

\* ------------------------------------------------------------ strings
\* strings.Index(s, substr), counted from 1; 0 when substr does not occur
strings_Index(s, substr) ==
  LET at == {i \in 1..(Len(s) - Len(substr) + 1) :
               SubSeq(s, i, i + Len(substr) - 1) = substr}
  IN IF at = {} THEN 0 ELSE CHOOSE i \in at : \A k \in at : i <= k

\* strings.Contains(s, substr)
strings_Contains(s, substr) == strings_Index(s, substr) # 0

\* strings.HasSuffix(s, suffix)
strings_HasSuffix(s, suffix) ==
  /\ Len(s) >= Len(suffix)
  /\ SubSeq(s, Len(s) - Len(suffix) + 1, Len(s)) = suffix

\* strings.Replace(s, old, new, n) for a non-empty old: the first n occurrences
\* of old, left to right and not overlapping, become new; all of them when n < 0
RECURSIVE strings_Replace(_, _, _, _)
strings_Replace(s, old, new, n) ==
  LET i == strings_Index(s, old)
  IN IF n = 0 \/ i = 0
       THEN s
       ELSE SubSeq(s, 1, i - 1) \o new
              \o strings_Replace(SubSeq(s, i + Len(old), Len(s)), old, new, n - 1)

\* variant of replaceID: every occurrence of {ID} is replaced
replaceID_all(target, id) ==
  IF strings_Contains(target, Placeholder)
    THEN strings_Replace(target, Placeholder, id, -1)
    ELSE IF strings_HasSuffix(target, <<"/">>)
           THEN target \o id
           ELSE target \o <<"/">> \o id

\* replaceID(url, id)
replaceID(target, id) ==
  IF strings_Contains(target, Placeholder)
    THEN strings_Replace(target, Placeholder, id, 1)
    ELSE IF strings_HasSuffix(target, <<"/">>)
           THEN target \o id
           ELSE target \o <<"/">> \o id

\* the URL field of the FuzzJob the feeder builds for payload number job
\* (targetURL := replaceID(url, p)); nothing assigns it afterwards
JobURL(job) == replaceID(url, payloads[job])

\* ------------------------------------------------------------ helpers
Cancelled(job) ==
  [Job |-> job, Error |-> "cancelled", StatusCode |-> 0, ContentLen |-> 0,
   IsVulnerable |-> FALSE]

\* processJob(job)'s loop head for worker w arriving with loop variable a:
\* `attempt <= fe.MaxRetries`, then the non-blocking test of fe.ctx.Done()
LoopHead(w, job, a) ==
  /\ wattempt' = [wattempt EXCEPT ![w] = a]
  /\ IF a > MaxRetries
       THEN wpc' = [wpc EXCEPT ![w] = "total"] /\ UNCHANGED wres
       ELSE IF cancelled
              THEN /\ wpc' = [wpc EXCEPT ![w] = "send"]
                   /\ wres' = [wres EXCEPT ![w] = Cancelled(job)]
              ELSE wpc' = [wpc EXCEPT ![w] = "rl"] /\ UNCHANGED wres

\* close(fe.Queue)
CloseJobQueue ==
  IF queueClosed
    THEN panic' = "close of closed channel: Queue" /\ UNCHANGED queueClosed
    ELSE queueClosed' = TRUE /\ UNCHANGED panic

\* close(fe.Results)
CloseResults ==
  IF resultsClosed
    THEN panic' = "close of closed channel: Results" /\ UNCHANGED resultsClosed
    ELSE resultsClosed' = TRUE /\ UNCHANGED panic

\* the feeder's `for i, p := range payloads` head: the non-blocking test of
\* runScan's ctx, then Submit is called for payload n
FeederLoop(n) ==
  /\ fnext' = n
  /\ IF n > MaxJobs \/ sigCancelled
       THEN fpc' = "closeq" /\ UNCHANGED fcallCancelled
       ELSE fpc' = "submit" /\ fcallCancelled' = cancelled

\* ------------------------------------------------------------ FuzzEngine
\* variant of Start: the engine's context is made anew when the workers are
\* spawned
Start_freshContext ==
  /\ Running /\ fpc = "start"
  /\ UNCHANGED otherVars
  /\ IF started
       THEN UNCHANGED <<started, wpc, cancelled>>
       ELSE /\ started' = TRUE
            /\ cancelled' = FALSE
            /\ wpc' = [w \in WorkerIds |-> "idle"]
  /\ FeederLoop(1)
  /\ UNCHANGED <<sigCancelled, queue, queueClosed, results, resultsClosed,
                 stats, wjob, wattempt, werr, wres, accepted, emitted, spc, drainer,
                 panic>>

\* Start(): set started, spawn fe.Workers goroutines; the feeder then reaches
\* its loop
Start ==
  /\ Running /\ fpc = "start"
  /\ UNCHANGED otherVars
  /\ IF started
       THEN UNCHANGED <<started, wpc>>
       ELSE /\ started' = TRUE
            /\ wpc' = [w \in WorkerIds |-> "idle"]
  /\ FeederLoop(1)
  /\ UNCHANGED <<cancelled, sigCancelled, queue, queueClosed, results, resultsClosed,
                 stats, wjob, wattempt, werr, wres, accepted, emitted, spc, drainer,
                 panic>>

\* Submit(job): select { case <-fe.ctx.Done(): return false
\*                       case fe.Queue <- job: return true }
\* The outcome of the select as (what happens to the queue, the return value).
Submit(job, ret) ==
  \/ /\ cancelled
     /\ ret = FALSE
     /\ UNCHANGED <<queue, panic>>
  \/ /\ ~queueClosed /\ Len(queue) < queueSize
     /\ ret = TRUE
     /\ queue' = Append(queue, job)
     /\ UNCHANGED panic
  \/ /\ queueClosed
     /\ ret = FALSE
     /\ panic' = "send on closed channel: Queue"
     /\ UNCHANGED queue

\* the feeder's call of Submit(job) and what it does with the answer
FeederSubmit ==
  /\ Running /\ fpc = "submit"
  /\ UNCHANGED otherVars
  /\ \E ret \in BOOLEAN :
       /\ Submit(fnext, ret)
       /\ IF panic' # ""
            THEN UNCHANGED <<fpc, fnext, fcallCancelled, accepted>>
            ELSE IF ret
                   THEN accepted' = accepted \cup {fnext} /\ FeederLoop(fnext + 1)
                   ELSE /\ fpc' = "closeq"
                        /\ UNCHANGED <<fnext, fcallCancelled, accepted>>
  /\ UNCHANGED <<cancelled, sigCancelled, started, queueClosed, results, resultsClosed,
                 stats, wpc, wjob, wattempt, werr, wres, emitted, spc, drainer>>

\* CloseQueue(): lock; close(fe.Queue)
CloseQueue ==
  /\ CloseJobQueue
  /\ UNCHANGED <<cancelled, sigCancelled, started, queue, results, resultsClosed,
                 stats, wpc, wjob, wattempt, werr, wres, fnext, fcallCancelled,
                 accepted, emitted, spc, drainer>>

FeederCloseQueue ==
  /\ Running /\ fpc = "closeq"
  /\ UNCHANGED otherVars
  /\ CloseQueue
  /\ fpc' = IF panic' = "" THEN "wait" ELSE fpc

\* variant of WaitAndClose: Results is closed without waiting for the workers
WaitAndClose_noWait ==
  /\ CloseResults
  /\ UNCHANGED <<cancelled, sigCancelled, started, queue, queueClosed, results, stats, wpc,
                 wjob, wattempt, werr, wres, fnext, fcallCancelled, accepted, emitted,
                 spc, drainer>>

\* WaitAndClose(): fe.wg.Wait(); close(fe.Results)
WaitAndClose ==
  /\ WgZero
  /\ CloseResults
  /\ UNCHANGED <<cancelled, sigCancelled, started, queue, queueClosed, results, stats, wpc,
                 wjob, wattempt, werr, wres, fnext, fcallCancelled, accepted, emitted,
                 spc, drainer>>

FeederWaitAndClose ==
  /\ Running /\ fpc = "wait"
  /\ UNCHANGED otherVars
  /\ WaitAndClose
  /\ fpc' = IF panic' = "" THEN "done" ELSE fpc

\* Cancel(): fe.cancel()
Cancel ==
  /\ Running
  /\ UNCHANGED otherVars
  /\ cancelled' = TRUE
  /\ UNCHANGED <<sigCancelled, started, queue, queueClosed, results, resultsClosed,
                 stats, wpc, wjob, wattempt, werr, wres, fpc, fnext, fcallCancelled,
                 accepted, emitted, spc, drainer, panic>>

\* runScan's signal goroutine: <-sigChan; cancel() on runScan's own context
Signal ==
  /\ Running /\ ~sigCancelled
  /\ UNCHANGED otherVars
  /\ sigCancelled' = TRUE
  /\ UNCHANGED <<cancelled, started, queue, queueClosed, results, resultsClosed,
                 stats, wpc, wjob, wattempt, werr, wres, fpc, fnext, fcallCancelled,
                 accepted, emitted, spc, drainer, panic>>

\* ------------------------------------------------------------ worker
\* worker(): select { case <-fe.ctx.Done(): return
\*                    case job, ok := <-fe.Queue: if !ok { return }; processJob }
WorkerSelect(w) ==
  /\ Running /\ wpc[w] = "idle"
  /\ UNCHANGED <<quietVars, dispatched>>
  /\ \/ /\ cancelled
        /\ wpc' = [wpc EXCEPT ![w] = "exited"]
        /\ UNCHANGED <<queue, wjob, wattempt, werr, wres, tries, counted>>
     \/ /\ queue = <<>> /\ queueClosed
        /\ wpc' = [wpc EXCEPT ![w] = "exited"]
        /\ UNCHANGED <<queue, wjob, wattempt, werr, wres, tries, counted>>
     \/ /\ queue # <<>>
        /\ queue' = Tail(queue)
        /\ tries' = [tries EXCEPT ![w] = 0]
        /\ counted' = [counted EXCEPT ![w] = NoneCounted]
        /\ wjob' = [wjob EXCEPT ![w] = Head(queue)]
        /\ werr' = [werr EXCEPT ![w] = "nil"]
        /\ LoopHead(w, Head(queue), 0)
  /\ UNCHANGED <<cancelled, sigCancelled, started, queueClosed, results, resultsClosed,
                 stats, fpc, fnext, fcallCancelled, accepted, emitted, spc, drainer,
                 panic>>

\* processJob: fe.Client.RequestWithRateLimit(fe.ctx), i.e. RateLimiter.Wait(ctx).
\* It fails only with the context's error; when the token fires while the wait
\* is under way the timer and ctx.Done() race, so either outcome is possible.
WorkerRateLimit(w) ==
  /\ Running /\ wpc[w] = "rl"
  /\ UNCHANGED otherVars
  /\ \/ /\ wpc' = [wpc EXCEPT ![w] = "http"]
        /\ UNCHANGED werr
     \/ /\ cancelled
        /\ IF wattempt[w] = MaxRetries
             THEN /\ wpc' = [wpc EXCEPT ![w] = "total"]
                  /\ werr' = [werr EXCEPT ![w] = "cancelled"]
             ELSE /\ wpc' = [wpc EXCEPT ![w] = "sleep"]
                  /\ UNCHANGED werr
  /\ UNCHANGED <<cancelled, sigCancelled, started, queue, queueClosed, results,
                 resultsClosed, stats, wjob, wattempt, wres, fpc, fnext,
                 fcallCancelled, accepted, emitted, spc, drainer, panic>>

\* variants of WorkerDispatch: a transport error ends the job at once, and
\* IncrementTotal is called for every attempt
WorkerDispatch_noRetry(w) ==
  /\ Running /\ wpc[w] = "http"
  /\ UNCHANGED quietVars
  /\ dispatched' = dispatched \cup {<<wjob[w], JobURL(wjob[w])>>}
  /\ tries' = [tries EXCEPT ![w] = @ + 1]
  /\ UNCHANGED counted
  /\ \/ /\ werr' = [werr EXCEPT ![w] = "nil"]
        /\ wpc' = [wpc EXCEPT ![w] = "total"]
     \/ /\ werr' = [werr EXCEPT ![w] = "transport"]
        /\ wpc' = [wpc EXCEPT ![w] = "total"]
  /\ UNCHANGED <<cancelled, sigCancelled, started, queue, queueClosed, results,
                 resultsClosed, stats, wjob, wattempt, wres, fpc, fnext,
                 fcallCancelled, accepted, emitted, spc, drainer, panic>>

WorkerDispatch_countsAttempt(w) ==
  /\ Running /\ wpc[w] = "http"
  /\ UNCHANGED quietVars
  /\ dispatched' = dispatched \cup {<<wjob[w], JobURL(wjob[w])>>}
  /\ tries' = [tries EXCEPT ![w] = @ + 1]
  /\ counted' = [counted EXCEPT ![w].total = @ + 1]
  /\ stats' = [stats EXCEPT !.total = @ + 1]
  /\ \/ /\ werr' = [werr EXCEPT ![w] = "nil"]
        /\ wpc' = [wpc EXCEPT ![w] = "total"]
     \/ /\ werr' = [werr EXCEPT ![w] = "transport"]
        /\ wpc' = [wpc EXCEPT ![w] =
                     IF wattempt[w] < MaxRetries THEN "sleep" ELSE "total"]
  /\ UNCHANGED <<cancelled, sigCancelled, started, queue, queueClosed, results,
                 resultsClosed, wjob, wattempt, wres, fpc, fnext,
                 fcallCancelled, accepted, emitted, spc, drainer, panic>>

\* processJob: the request is dispatched (req.Get/Post/...(job.URL)) and returns
\* a response or a transport error
WorkerDispatch(w) ==
  /\ Running /\ wpc[w] = "http"
  /\ UNCHANGED quietVars
  /\ dispatched' = dispatched \cup {<<wjob[w], JobURL(wjob[w])>>}
  /\ tries' = [tries EXCEPT ![w] = @ + 1]
  /\ UNCHANGED counted
  /\ \/ /\ werr' = [werr EXCEPT ![w] = "nil"]
        /\ wpc' = [wpc EXCEPT ![w] = "total"]
     \/ /\ werr' = [werr EXCEPT ![w] = "transport"]
        /\ wpc' = [wpc EXCEPT ![w] =
                     IF wattempt[w] < MaxRetries THEN "sleep" ELSE "total"]
  /\ UNCHANGED <<cancelled, sigCancelled, started, queue, queueClosed, results,
                 resultsClosed, stats, wjob, wattempt, wres, fpc, fnext,
                 fcallCancelled, accepted, emitted, spc, drainer, panic>>

\* processJob: time.Sleep((attempt+1) * time.Second) ends; attempt++ and the loop
\* head is evaluated
WorkerSleep(w) ==
  /\ Running /\ wpc[w] = "sleep"
  /\ UNCHANGED otherVars
  /\ LoopHead(w, wjob[w], wattempt[w] + 1)
  /\ UNCHANGED <<cancelled, sigCancelled, started, queue, queueClosed, results,
                 resultsClosed, stats, wjob, werr, fpc, fnext, fcallCancelled,
                 accepted, emitted, spc, drainer, panic>>

\* variant of WorkerTotal: the total counter is not incremented
WorkerTotal_skip(w) ==
  /\ Running /\ wpc[w] = "total"
  /\ UNCHANGED otherVars
  /\ wpc' = [wpc EXCEPT ![w] = "outcome"]
  /\ UNCHANGED <<cancelled, sigCancelled, started, queue, queueClosed, results,
                 resultsClosed, stats, wjob, wattempt, werr, wres, fpc, fnext,
                 fcallCancelled, accepted, emitted, spc, drainer, panic>>

\* processJob: fe.Stats.IncrementTotal()
WorkerTotal(w) ==
  /\ Running /\ wpc[w] = "total"
  /\ UNCHANGED <<quietVars, dispatched, tries>>
  /\ stats' = [stats EXCEPT !.total = @ + 1]
  /\ counted' = [counted EXCEPT ![w].total = @ + 1]
  /\ wpc' = [wpc EXCEPT ![w] = "outcome"]
  /\ UNCHANGED <<cancelled, sigCancelled, started, queue, queueClosed, results,
                 resultsClosed, wjob, wattempt, werr, wres, fpc, fnext,
                 fcallCancelled, accepted, emitted, spc, drainer, panic>>

\* variant of WorkerOutcome: the error path does not count the failure
WorkerOutcome_noFailed(w) ==
  /\ Running /\ wpc[w] = "outcome"
  /\ UNCHANGED <<quietVars, dispatched, tries>>
  /\ IF werr[w] # "nil"
       THEN /\ UNCHANGED <<stats, counted>>
            /\ wres' = [wres EXCEPT ![w] =
                          [Job |-> wjob[w], Error |-> werr[w], StatusCode |-> 0,
                           ContentLen |-> 0, IsVulnerable |-> FALSE]]
       ELSE LET isVuln == wjob[w] \in VulnerableJobs
            IN /\ stats' = [stats EXCEPT !.success = @ + 1,
                                         !.vuln = IF isVuln THEN @ + 1 ELSE @]
               /\ counted' = [counted EXCEPT
                                ![w].success = @ + 1,
                                ![w].vuln = IF isVuln THEN @ + 1 ELSE @]
               /\ wres' = [wres EXCEPT ![w] =
                             [Job |-> wjob[w], Error |-> "nil", StatusCode |-> 200,
                              ContentLen |-> 1, IsVulnerable |-> isVuln]]
  /\ wpc' = [wpc EXCEPT ![w] = "send"]
  /\ UNCHANGED <<cancelled, sigCancelled, started, queue, queueClosed, results,
                 resultsClosed, wjob, wattempt, werr, fpc, fnext, fcallCancelled,
                 accepted, emitted, spc, drainer, panic>>

\* variant of WorkerOutcome: IncrementSuccess is called before the error test
WorkerOutcome_successFirst(w) ==
  /\ Running /\ wpc[w] = "outcome"
  /\ UNCHANGED <<quietVars, dispatched, tries>>
  /\ IF werr[w] # "nil"
       THEN /\ stats' = [stats EXCEPT !.failed = @ + 1, !.success = @ + 1]
            /\ counted' = [counted EXCEPT ![w].failed = @ + 1, ![w].success = @ + 1]
            /\ wres' = [wres EXCEPT ![w] =
                          [Job |-> wjob[w], Error |-> werr[w], StatusCode |-> 0,
                           ContentLen |-> 0, IsVulnerable |-> FALSE]]
       ELSE LET isVuln == wjob[w] \in VulnerableJobs
            IN /\ stats' = [stats EXCEPT !.success = @ + 1,
                                         !.vuln = IF isVuln THEN @ + 1 ELSE @]
               /\ counted' = [counted EXCEPT
                                ![w].success = @ + 1,
                                ![w].vuln = IF isVuln THEN @ + 1 ELSE @]
               /\ wres' = [wres EXCEPT ![w] =
                             [Job |-> wjob[w], Error |-> "nil", StatusCode |-> 200,
                              ContentLen |-> 1, IsVulnerable |-> isVuln]]
  /\ wpc' = [wpc EXCEPT ![w] = "send"]
  /\ UNCHANGED <<cancelled, sigCancelled, started, queue, queueClosed, results,
                 resultsClosed, wjob, wattempt, werr, fpc, fnext, fcallCancelled,
                 accepted, emitted, spc, drainer, panic>>

\* processJob: IncrementFailed and the error result, or IncrementSuccess,
\* Detector.Detect(resp), IncrementVuln and the full result
WorkerOutcome(w) ==
  /\ Running /\ wpc[w] = "outcome"
  /\ UNCHANGED <<quietVars, dispatched, tries>>
  /\ IF werr[w] # "nil"
       THEN /\ stats' = [stats EXCEPT !.failed = @ + 1]
            /\ counted' = [counted EXCEPT ![w].failed = @ + 1]
            /\ wres' = [wres EXCEPT ![w] =
                          [Job |-> wjob[w], Error |-> werr[w], StatusCode |-> 0,
                           ContentLen |-> 0, IsVulnerable |-> FALSE]]
       ELSE LET isVuln == wjob[w] \in VulnerableJobs
            IN /\ stats' = [stats EXCEPT !.success = @ + 1,
                                         !.vuln = IF isVuln THEN @ + 1 ELSE @]
               /\ counted' = [counted EXCEPT
                                ![w].success = @ + 1,
                                ![w].vuln = IF isVuln THEN @ + 1 ELSE @]
               /\ wres' = [wres EXCEPT ![w] =
                             [Job |-> wjob[w], Error |-> "nil", StatusCode |-> 200,
                              ContentLen |-> 1, IsVulnerable |-> isVuln]]
  /\ wpc' = [wpc EXCEPT ![w] = "send"]
  /\ UNCHANGED <<cancelled, sigCancelled, started, queue, queueClosed, results,
                 resultsClosed, wjob, wattempt, werr, fpc, fnext, fcallCancelled,
                 accepted, emitted, spc, drainer, panic>>

\* variants of WorkerSend: a non-blocking send that drops the result when
\* fe.Results is full, and a plain send that does not watch the token
WorkerSend_nonBlocking(w) ==
  /\ Running /\ wpc[w] = "send"
  /\ UNCHANGED otherVars
  /\ \/ /\ cancelled
        /\ wpc' = [wpc EXCEPT ![w] = "exited"]
        /\ UNCHANGED <<results, emitted, panic>>
     \/ /\ ~resultsClosed /\ Len(results) < queueSize
        /\ results' = Append(results, wres[w])
        /\ emitted' = [emitted EXCEPT ![wjob[w]] = @ + 1]
        /\ wpc' = [wpc EXCEPT ![w] = "idle"]
        /\ UNCHANGED panic
     \/ /\ ~resultsClosed /\ Len(results) >= queueSize
        /\ wpc' = [wpc EXCEPT ![w] = "idle"]
        /\ UNCHANGED <<results, emitted, panic>>
     \/ /\ resultsClosed
        /\ panic' = "send on closed channel: Results"
        /\ UNCHANGED <<results, emitted, wpc>>
  /\ UNCHANGED <<cancelled, sigCancelled, started, queue, queueClosed, resultsClosed,
                 stats, wjob, wattempt, werr, wres, fpc, fnext, fcallCancelled,
                 accepted, spc, drainer>>

WorkerSend_plain(w) ==
  /\ Running /\ wpc[w] = "send"
  /\ UNCHANGED otherVars
  /\ \/ /\ ~resultsClosed /\ Len(results) < queueSize
        /\ results' = Append(results, wres[w])
        /\ emitted' = [emitted EXCEPT ![wjob[w]] = @ + 1]
        /\ wpc' = [wpc EXCEPT ![w] = "idle"]
        /\ UNCHANGED panic
     \/ /\ resultsClosed
        /\ panic' = "send on closed channel: Results"
        /\ UNCHANGED <<results, emitted, wpc>>
  /\ UNCHANGED <<cancelled, sigCancelled, started, queue, queueClosed, resultsClosed,
                 stats, wjob, wattempt, werr, wres, fpc, fnext, fcallCancelled,
                 accepted, spc, drainer>>

\* worker(): select { case <-fe.ctx.Done(): return
\*                    case fe.Results <- result: }
WorkerSend(w) ==
  /\ Running /\ wpc[w] = "send"
  /\ UNCHANGED otherVars
  /\ \/ /\ cancelled
        /\ wpc' = [wpc EXCEPT ![w] = "exited"]
        /\ UNCHANGED <<results, emitted, panic>>
     \/ /\ ~resultsClosed /\ Len(results) < queueSize
        /\ results' = Append(results, wres[w])
        /\ emitted' = [emitted EXCEPT ![wjob[w]] = @ + 1]
        /\ wpc' = [wpc EXCEPT ![w] = "idle"]
        /\ UNCHANGED panic
     \/ /\ resultsClosed
        /\ panic' = "send on closed channel: Results"
        /\ UNCHANGED <<results, emitted, wpc>>
  /\ UNCHANGED <<cancelled, sigCancelled, started, queue, queueClosed, resultsClosed,
                 stats, wjob, wattempt, werr, wres, fpc, fnext, fcallCancelled,
                 accepted, spc, drainer>>

\* ------------------------------------------------------------ result drain
\* runScan's collector: for result := range fe.Results
Receive ==
  /\ Running /\ results # <<>>
  /\ UNCHANGED otherVars
  /\ results' = Tail(results)
  /\ UNCHANGED <<cancelled, sigCancelled, started, queue, queueClosed, resultsClosed,
                 stats, wpc, wjob, wattempt, werr, wres, fpc, fnext, fcallCancelled,
                 accepted, emitted, spc, drainer, panic>>

\* ------------------------------------------------------------ Stop
\* Stop(): fe.cancel()
StopCancel ==
  /\ Running /\ spc = "idle"
  /\ UNCHANGED otherVars
  /\ cancelled' = TRUE
  /\ spc' = "closeq"
  /\ UNCHANGED <<sigCancelled, started, queue, queueClosed, results, resultsClosed,
                 stats, wpc, wjob, wattempt, werr, wres, fpc, fnext, fcallCancelled,
                 accepted, emitted, drainer, panic>>

\* Stop(): lock; if fe.started { close(fe.Queue) }; unlock
StopCloseQueue ==
  /\ Running /\ spc = "closeq"
  /\ UNCHANGED otherVars
  /\ IF started THEN CloseJobQueue ELSE UNCHANGED <<queueClosed, panic>>
  /\ spc' = IF panic' = "" THEN "wait" ELSE spc
  /\ UNCHANGED <<cancelled, sigCancelled, started, queue, results, resultsClosed,
                 stats, wpc, wjob, wattempt, werr, wres, fpc, fnext, fcallCancelled,
                 accepted, emitted, drainer>>

\* Stop(): fe.wg.Wait(); go func() { for range fe.Results {} }(); close(fe.Results)
StopWaitAndClose ==
  /\ Running /\ spc = "wait"
  /\ UNCHANGED otherVars
  /\ WgZero
  /\ drainer' = TRUE
  /\ CloseResults
  /\ spc' = IF panic' = "" THEN "idle" ELSE spc
  /\ UNCHANGED <<cancelled, sigCancelled, started, queue, queueClosed, results, stats,
                 wpc, wjob, wattempt, werr, wres, fpc, fnext, fcallCancelled, accepted,
                 emitted>>

\* Stop's goroutine discarding what is left in fe.Results
Drain ==
  /\ Running /\ drainer /\ results # <<>>
  /\ UNCHANGED otherVars
  /\ results' = Tail(results)
  /\ UNCHANGED <<cancelled, sigCancelled, started, queue, queueClosed, resultsClosed,
                 stats, wpc, wjob, wattempt, werr, wres, fpc, fnext, fcallCancelled,
                 accepted, emitted, spc, drainer, panic>>

\* another caller's CloseQueue() (not inside Stop)
CallerCloseQueue ==
  /\ Running /\ spc = "idle"
  /\ UNCHANGED otherVars
  /\ CloseQueue
  /\ UNCHANGED fpc

\* ------------------------------------------------------------ verdict functions
\* A response is its status code, its body length and the set of PII patterns
\* its body matches (what regexp.MatchString / FindAllString answer for it).
\* float64 values are kept as exact fractions num/den with den > 0.
piiPatterns ==
  {"email", "phone_us", "phone_intl", "ssn", "credit_card", "api_key", "jwt",
   "password", "private_key"}

Frac(n, d) == [num |-> n, den |-> d]
FracLess(a, b) == a.num * b.den < b.num * a.den
FracEq(a, b) == a.num * b.den = b.num * a.den

Abs(x) == IF x < 0 THEN -x ELSE x

\* ResponseComparator.Compare
Compare(rc, r) ==
  LET baselineLen == rc.Baseline.len
      respLen == r.len
      LengthDiff == Abs(baselineLen - respLen)
  IN [StatusMatch |-> rc.Baseline.status = r.status,
      LengthDiff |-> LengthDiff,
      BodySimilarity |->
        IF baselineLen > 0
          THEN Frac(baselineLen - LengthDiff, baselineLen)
          ELSE IF respLen = 0 THEN Frac(1, 1) ELSE Frac(0, 1)]

\* IDORDetector.containsPII
containsPII(d, body) == \E pattern \in piiPatterns : pattern \in body.pii

\* IDORDetector.GetPIIMatches: the pattern names that have matches
GetPIIMatches(d, body) == {name \in piiPatterns : name \in body.pii}

\* IDORDetector.Detect (resp # nil)
Detect(d, r) ==
  LET statusCode == r.status
      h1 == /\ statusCode >= 200 /\ statusCode < 300
            /\ d.InvalidComparator # <<>>
            /\ d.InvalidComparator[1].Baseline.status \in {403, 401, 404}
      h2 == /\ d.ValidComparator # <<>>
            /\ LET cmp == Compare(d.ValidComparator[1], r)
                   bodyLen == r.len
                   baselineLen == d.ValidComparator[1].Baseline.len
               IN /\ FracLess(cmp.BodySimilarity, d.Threshold)
                  /\ statusCode >= 200 /\ statusCode < 300
                  /\ bodyLen > 100 /\ bodyLen > baselineLen \div 2
      h3 == d.CheckPII /\ containsPII(d, r)
  IN h1 \/ h2 \/ h3

\* IDORDetector.DetectWithEvidence
DetectWithEvidence(d, r) ==
  LET s1 == /\ r.status >= 200 /\ r.status < 300
            /\ d.InvalidComparator # <<>>
            /\ d.InvalidComparator[1].Baseline.status \in {403, 401}
      sim == IF d.ValidComparator # <<>>
               THEN Compare(d.ValidComparator[1], r).BodySimilarity
               ELSE Frac(0, 1)
      s2 == /\ d.ValidComparator # <<>>
            /\ FracLess(sim, d.Threshold)
            /\ r.status >= 200 /\ r.status < 300
      pii == IF d.CheckPII THEN GetPIIMatches(d, r) ELSE {}
      s3 == pii # {}
  IN [IsVulnerable |-> s1 \/ s2 \/ s3,
      Reasons |->
        (IF s1 THEN <<"Status code bypass: expected 403/401, got 200">> ELSE <<>>)
        \o (IF s2 THEN <<"Content significantly different from baseline">> ELSE <<>>)
        \o (IF s3 THEN <<"PII detected in response">> ELSE <<>>),
      PIIFound |-> pii,
      StatusCode |-> r.status,
      ContentLen |-> r.len,
      Similarity |-> sim]

\* the FuzzResult processJob builds from a response (the fields the reporter reads)
FuzzResult(d, r) ==
  [StatusCode |-> r.status, ContentLen |-> r.len, IsVulnerable |-> Detect(d, r),
   EvidenceLen |-> r.len]

\* reporter.determineSeverity
determineSeverity(result) ==
  IF result.StatusCode = 200 THEN "HIGH"
  ELSE IF result.ContentLen > 100 THEN "MEDIUM"
  ELSE "LOW"

\* Reporter.AddFinding: the Finding appended for a result (evidence as its length)
Finding(result) ==
  [StatusCode |-> result.StatusCode,
   ContentLen |-> result.ContentLen,
   Severity |-> determineSeverity(result),
   EvidenceLen |-> IF result.EvidenceLen > 1000
                     THEN 1000 + Len("...[truncated]")
                     ELSE result.EvidenceLen]

\* ---- inputs
MaxFindings == 1

RespStatuses == {200, 299, 300, 403}
RespLens == {0, 50, 100, 101, 150, 1000, 1001}
BodyPII == {{}, {"email"}}
InvalidStatuses == {200, 401, 403, 404, 500}
ValidLens == {0, 50, 400}
Thresholds == {Frac(0, 1), Frac(4, 5), Frac(1, 1)}

Responses == [status : RespStatuses, len : RespLens, pii : BodyPII]
ValidBaselines == [status : {200}, len : ValidLens, pii : {{}}]
InvalidBaselines == [status : InvalidStatuses, len : {20}, pii : {{}}]

\* NewIDORDetector(validBaseline, invalidBaseline, threshold, checkPII); <<>> is nil
NewIDORDetector(validBaseline, invalidBaseline, threshold, checkPII) ==
  [ValidComparator |->
     IF validBaseline # <<>> THEN <<[Baseline |-> validBaseline[1]]>> ELSE <<>>,
   InvalidComparator |->
     IF invalidBaseline # <<>> THEN <<[Baseline |-> invalidBaseline[1]]>> ELSE <<>>,
   Threshold |-> threshold,
   CheckPII |-> checkPII]

Nilable(S) == {<<>>} \cup {<<x>> : x \in S}

VerdictInit ==
  /\ \E v \in Nilable(ValidBaselines), i \in Nilable(InvalidBaselines),
        t \in Thresholds, c \in BOOLEAN :
       det = NewIDORDetector(v, i, t, c)
  /\ resp \in Responses
  /\ detected = <<>>
  /\ evidence = <<>>
  /\ comparison = <<>>
  /\ findings = <<>>

CallDetect ==
  /\ detected = <<>>
  /\ detected' = <<Detect(det, resp)>>
  /\ UNCHANGED <<det, resp, evidence, comparison, findings>>
  /\ UNCHANGED notVerdict

CallDetectWithEvidence ==
  /\ evidence = <<>>
  /\ evidence' = <<DetectWithEvidence(det, resp)>>
  /\ UNCHANGED <<det, resp, detected, comparison, findings>>
  /\ UNCHANGED notVerdict

CallCompare ==
  /\ comparison = <<>>
  /\ det.ValidComparator # <<>>
  /\ comparison' = <<Compare(det.ValidComparator[1], resp)>>
  /\ UNCHANGED <<det, resp, detected, evidence, findings>>
  /\ UNCHANGED notVerdict

\* runScan's collector: if result.IsVulnerable { rep.AddFinding(result) }
AddFinding ==
  /\ Len(findings) < MaxFindings
  /\ LET result == FuzzResult(det, resp)
     IN /\ result.IsVulnerable
        /\ findings' = Append(findings, Finding(result))
  /\ UNCHANGED <<det, resp, detected, evidence, comparison>>
  /\ UNCHANGED notVerdict

VerdictNext ==
  \/ CallDetect
  \/ CallDetectWithEvidence
  \/ CallCompare
  \/ AddFinding

InitVerdict ==
  EngineInit /\ VerdictInit /\ FilesIdle /\ JobsIdle /\ AuthIdle /\ ScanIdle /\ IdIdle /\ GenIdle
    /\ ProxyIdle

VerdictSpec == InitVerdict /\ [][VerdictNext]_vars

\* ------------------------------------------------------------ file output
\* permission bits of the modes the code passes, and of the masks modelled
Mode0600 == {"ur", "uw"}
Mode0644 == {"ur", "uw", "gr", "or"}
Umask022 == {"gw", "ow"}
Umask077 == {"gr", "gw", "gx", "or", "ow", "ox"}

Paths == {"report", "endpoints"}

\* os.WriteFile(name, data, perm): open with O_WRONLY|O_CREATE|O_TRUNC. The
\* file is created with perm minus the umask when it does not exist; an
\* existing file is truncated and keeps its mode. ok = the call returned nil.
os_WriteFile(name, perm, ok) ==
  IF ok
    THEN /\ files' = [files EXCEPT ![name] = IF @ = <<>> THEN <<perm \ umask>> ELSE @]
         /\ created' = IF files[name] = <<>> THEN created \cup {name} ELSE created
         /\ wrote' = wrote \cup {name}
    ELSE UNCHANGED <<files, created, wrote>>

\* utils.WriteFile of pkg/utils/file.go
WriteFile(path, ok) == os_WriteFile(path, Mode0600, ok)

\* utils.WriteFile of IdorPlus/pkg/utils/file.go, the one the reporter of
\* IdorPlus/pkg/reporter and discover.go are built with
IdorPlus_WriteFile(path, ok) == os_WriteFile(path, Mode0644, ok)

\* Reporter.generateJSON
generateJSON(filename, ok) == IdorPlus_WriteFile(filename, ok)

\* Reporter.generateMarkdown
generateMarkdown(filename, ok) == IdorPlus_WriteFile(filename, ok)

\* Reporter.GenerateReport(filename): switch r.Format
GenerateReport ==
  /\ \E ok \in BOOLEAN :
       IF format = "markdown"
         THEN generateMarkdown("report", ok)
         ELSE generateJSON("report", ok)
  /\ UNCHANGED <<umask, format>>
  /\ UNCHANGED notFile

\* the reporter kept in pkg/client/session.go: os.WriteFile(filename, data, 0644)
GenerateReport_session ==
  /\ \E ok \in BOOLEAN : os_WriteFile("report", Mode0644, ok)
  /\ UNCHANGED <<umask, format>>
  /\ UNCHANGED notFile

\* cmd/crawl.go saveEndpoints(endpoints, path)
saveEndpoints ==
  /\ \E ok \in BOOLEAN : WriteFile("endpoints", ok)
  /\ UNCHANGED <<umask, format>>
  /\ UNCHANGED notFile

\* IdorPlus/cmd/discover.go: utils.WriteFile(output, ...)
discoverOutput ==
  /\ \E ok \in BOOLEAN : IdorPlus_WriteFile("endpoints", ok)
  /\ UNCHANGED <<umask, format>>
  /\ UNCHANGED notFile

\* the output directory and the reporter as a run can find them
FileInit ==
  /\ files \in [Paths -> {<<>>, <<Mode0600>>, <<Mode0644>>}]
  /\ umask \in {Umask022, Umask077}
  /\ format \in {"json", "markdown", "html"}
  /\ created = {}
  /\ wrote = {}

FileNext ==
  \/ GenerateReport
  \/ GenerateReport_session
  \/ saveEndpoints
  \/ discoverOutput

InitFile ==
  EngineInit /\ VerdictIdle /\ FileInit /\ JobsIdle /\ AuthIdle /\ ScanIdle /\ IdIdle /\ GenIdle
    /\ ProxyIdle

FileSpec == InitFile /\ [][FileNext]_vars

\* ------------------------------------------------------------ auth matrix
\* number of TestEndpoint calls followed
MaxRuns == 2

SessionNames == {"A", "B"}
ProbeKeys == SessionNames \cup {"no_session"}
ProbeStatuses == {200, 403}
ProbeLens == {0, 500, 505, 540, 545, 600}
ProbeOutcomes ==
  {[err |-> TRUE, status |-> 0, len |-> 0]}
    \cup [err : {FALSE}, status : ProbeStatuses, len : ProbeLens]

\* the keys of a Go map in the order one `range` over it yields them: the
\* language leaves the order unspecified, so every order can occur
RangeOrders(keys) ==
  {o \in [1..Cardinality(keys) -> keys] : \A k \in keys : \E i \in DOMAIN o : o[i] = k}

\* auth_matrix.go abs
abs(x) == IF x < 0 THEN -x ELSE x

\* testWithSession / testWithoutSession: the SessionResult for one probe
SessionResult(name) ==
  IF probes[name].err
    THEN [SessionName |-> name, StatusCode |-> 0, ContentLen |-> 0, HasAccess |-> FALSE]
    ELSE [SessionName |-> name,
          StatusCode |-> probes[name].status,
          ContentLen |-> probes[name].len,
          HasAccess |-> probes[name].status >= 200 /\ probes[name].status < 300]

\* float64(lenDiff)/float64(ownerLen) < 0.1: a division by zero yields +Inf
\* or NaN, and neither is below 0.1
RatioBelowTenth(lenDiff, ownerLen) ==
  /\ ownerLen # 0
  /\ FracLess(Frac(lenDiff, ownerLen), Frac(1, 10))

NoFinding == [IsVulnerable |-> FALSE, Reason |-> [kind |-> "", name |-> "", owner |-> ""]]

\* analyzeMatrix(results), with the orders its two `range results` loops take
analyzeMatrix(Results, order1, order2) ==
  LET owners == {i \in DOMAIN order1 : order1[i] # "no_session"}
  IN IF owners = {}
       THEN NoFinding
       ELSE
         LET ownerName == order1[CHOOSE i \in owners : \A k \in owners : i <= k]
             ownerResult == Results[ownerName]
             Returns(name) ==
               /\ name # ownerName
               /\ ownerResult.HasAccess /\ Results[name].HasAccess
               /\ \/ name = "no_session"
                  \/ LET lenDiff == abs(ownerResult.ContentLen - Results[name].ContentLen)
                     IN lenDiff < 50 \/ RatioBelowTenth(lenDiff, ownerResult.ContentLen)
             hits == {i \in DOMAIN order2 : Returns(order2[i])}
         IN IF hits = {}
              THEN NoFinding
              ELSE
                LET name == order2[CHOOSE i \in hits : \A k \in hits : i <= k]
                IN IF name = "no_session"
                     THEN [IsVulnerable |-> TRUE,
                           Reason |-> [kind |-> "unauthenticated", name |-> "", owner |-> ""]]
                     ELSE [IsVulnerable |-> TRUE,
                           Reason |-> [kind |-> "session", name |-> name,
                                       owner |-> ownerName]]

\* AddSession(name, cookies): amt.sessions[name] = cookies
AddSession(name) ==
  /\ sessions' = IF \E i \in DOMAIN sessions : sessions[i] = name
                   THEN sessions
                   ELSE Append(sessions, name)
  /\ UNCHANGED <<probes, matrix>>
  /\ UNCHANGED notAuth

\* TestEndpoint(url, method): probe with every session and with none, analyze
TestEndpoint ==
  /\ Len(matrix) < MaxRuns
  /\ LET keys == {sessions[i] : i \in DOMAIN sessions} \cup {"no_session"}
         Results == [k \in keys |-> SessionResult(k)]
     IN \E order1 \in RangeOrders(keys), order2 \in RangeOrders(keys) :
          matrix' = Append(matrix, analyzeMatrix(Results, order1, order2))
  /\ UNCHANGED <<sessions, probes>>
  /\ UNCHANGED notAuth

AuthInit ==
  /\ sessions = <<>>
  /\ probes \in [ProbeKeys -> ProbeOutcomes]
  /\ matrix = <<>>

\* the sessions are added first and the endpoint is tested afterwards, as
\* runScan does
AuthNext ==
  \/ matrix = <<>> /\ \E name \in SessionNames : AddSession(name)
  \/ TestEndpoint

InitAuth ==
  EngineInit /\ VerdictIdle /\ FilesIdle /\ JobsIdle /\ AuthInit /\ ScanIdle /\ IdIdle /\ GenIdle
    /\ ProxyIdle

AuthSpec == InitAuth /\ [][AuthNext]_vars

\* ------------------------------------------------------------ identifiers
\* number of DetectType calls followed on one identifier
MaxCalls == 2

Digit == {"0", "1", "2", "3", "4", "5", "6", "7", "8", "9"}
LowerHex == {"a", "b", "c", "d", "e", "f"}
UpperHex == {"A", "B", "C", "D", "E", "F"}
Lower == LowerHex \cup {"g", "h", "i", "j", "k", "l", "m", "n", "o", "p", "q", "r",
                        "s", "t", "u", "v", "w", "x", "y", "z"}
Upper == UpperHex \cup {"G", "H", "I", "J", "K", "L", "M", "N", "O", "P", "Q", "R",
                        "S", "T", "U", "V", "W", "X", "Y", "Z"}

\* IDType
TypeUnknown == "unknown"
TypeNumeric == "numeric"
TypeUUID == "uuid"
TypeMD5 == "md5"
TypeSHA1 == "sha1"
TypeBase64 == "base64"

\* every character of s is in class
AllIn(s, class) == \A i \in DOMAIN s : s[i] \in class

\* regexp.MatchString(`^\d+$`, s)
MatchNumeric(s) == s # <<>> /\ AllIn(s, Digit)

\* regexp.MatchString(`^[a-fA-F0-9]{n}$`, s)
MatchHex(s, n) == Len(s) = n /\ AllIn(s, Digit \cup LowerHex \cup UpperHex)

\* regexp.MatchString(`^[a-f0-9]{n}$`, s)
MatchLowerHex(s, n) == Len(s) = n /\ AllIn(s, Digit \cup LowerHex)

\* regexp.MustCompile(`-`).MatchString(s)
MatchDash(s) == \E i \in DOMAIN s : s[i] = "-"

\* regexp.MatchString(`^[A-Za-z0-9+/]+={0,2}$`, s)
MatchBase64(s) ==
  \E k \in 0..2 :
    /\ Len(s) - k >= 1
    /\ \A i \in 1..(Len(s) - k) : s[i] \in Digit \cup Lower \cup Upper \cup {"+", "/"}
    /\ \A i \in (Len(s) - k + 1)..Len(s) : s[i] = "="

\* the 36-character form xxxxxxxx-xxxx-xxxx-xxxx-xxxxxxxxxxxx
CanonicalUUID(s) ==
  /\ Len(s) = 36
  /\ \A i \in 1..36 :
       IF i \in {9, 14, 19, 24}
         THEN s[i] = "-"
         ELSE s[i] \in Digit \cup LowerHex \cup UpperHex

\* strings.EqualFold(s[:9], "urn:uuid:")
UrnPrefix(s) ==
  /\ s[1] \in {"u", "U"} /\ s[2] \in {"r", "R"} /\ s[3] \in {"n", "N"} /\ s[4] = ":"
  /\ s[5] \in {"u", "U"} /\ s[6] \in {"u", "U"} /\ s[7] \in {"i", "I"}
  /\ s[8] \in {"d", "D"} /\ s[9] = ":"

\* uuid.Parse(s) returns a nil error: by length, the 36-character form, the
\* same after "urn:uuid:", the same in braces, or 32 hex digits without dashes
uuid_Parse(s) ==
  \/ CanonicalUUID(s)
  \/ Len(s) = 45 /\ UrnPrefix(s) /\ CanonicalUUID(SubSeq(s, 10, 45))
  \/ Len(s) = 38 /\ s[1] = "{" /\ s[38] = "}" /\ CanonicalUUID(SubSeq(s, 2, 37))
  \/ MatchHex(s, 32)

\* IdentifierAnalyzer.DetectType of pkg/analyzer (kept in pkg/client/transport.go)
DetectType(s) ==
  IF MatchNumeric(s) THEN TypeNumeric
  ELSE IF MatchHex(s, 32) /\ ~MatchDash(s) THEN TypeMD5
  ELSE IF MatchHex(s, 40) THEN TypeSHA1
  ELSE IF uuid_Parse(s) THEN TypeUUID
  ELSE IF MatchBase64(s) /\ Len(s) > 4 THEN TypeBase64
  ELSE TypeUnknown

\* IdentifierAnalyzer.DetectType of IdorPlus/pkg/analyzer/identifier.go
IdorPlus_DetectType(s) ==
  IF uuid_Parse(s) THEN TypeUUID
  ELSE IF MatchNumeric(s) THEN TypeNumeric
  ELSE IF MatchLowerHex(s, 32) THEN TypeMD5
  ELSE IF MatchLowerHex(s, 40) THEN TypeSHA1
  ELSE IF MatchBase64(s) /\ Len(s) > 4 THEN TypeBase64
  ELSE TypeUnknown

\* ---- inputs
\* n times the character c
Rep(c, n) == [i \in 1..n |-> c]

\* c in the 8-4-4-4-12 layout
Dashed(c) ==
  Rep(c, 8) \o <<"-">> \o Rep(c, 4) \o <<"-">> \o Rep(c, 4) \o <<"-">> \o Rep(c, 4)
    \o <<"-">> \o Rep(c, 12)

FillChars == {"1", "a", "A", "g", "-", "+"}
FillLens == {0, 1, 4, 5, 31, 32, 33, 36, 40, 41}

Ids ==
  {Rep(c, n) : c \in FillChars, n \in FillLens}
    \cup {Dashed(c) : c \in FillChars}
    \cup {<<"u", "r", "n", ":", "u", "u", "i", "d", ":">> \o Dashed(c) : c \in FillChars}
    \cup {<<"{">> \o Dashed(c) \o <<"}">> : c \in FillChars}
    \cup {Rep(c, n) \o Rep("=", k) : c \in {"a", "+"}, n \in {0, 3, 4, 6}, k \in 1..3}
    \cup {Rep("1", 31) \o <<"a">>, Rep("a", 16) \o Rep("A", 16),
          Rep("1", 39) \o <<"F">>, <<"d", "G", "V", "z", "d", "A", "=", "=">>}

\* ia.DetectType(id) of the pkg/analyzer copy
CallDetectType ==
  /\ Len(idTypes) < MaxCalls
  /\ idTypes' = Append(idTypes, DetectType(ident))
  /\ UNCHANGED ident
  /\ UNCHANGED notId

\* ia.DetectType(id) of the IdorPlus/pkg/analyzer copy
CallIdorPlus_DetectType ==
  /\ Len(idTypes) < MaxCalls
  /\ idTypes' = Append(idTypes, IdorPlus_DetectType(ident))
  /\ UNCHANGED ident
  /\ UNCHANGED notId

IdInit ==
  /\ ident \in Ids
  /\ idTypes = <<>>

IdNext ==
  \/ CallDetectType
  \/ CallIdorPlus_DetectType

InitId ==
  EngineInit /\ VerdictIdle /\ FilesIdle /\ JobsIdle /\ AuthIdle /\ ScanIdle /\ IdInit /\ GenIdle
    /\ ProxyIdle

IdSpec == InitId /\ [][IdNext]_vars

\* ------------------------------------------------------------ numeric generator
\* largest count handed to Generate
MaxCount == 60

DigitChars == <<"0", "1", "2", "3", "4", "5", "6", "7", "8", "9">>

\* the digits of n >= 0, most significant first
RECURSIVE FormatDigits(_)
FormatDigits(n) ==
  IF n < 10
    THEN <<DigitChars[n + 1]>>
    ELSE FormatDigits(n \div 10) \o <<DigitChars[(n % 10) + 1]>>

\* fmt.Sprintf("%d", n)
Sprintf_d(n) == IF n < 0 THEN <<"-">> \o FormatDigits(-n) ELSE FormatDigits(n)

\* Generate's boundaries literal
boundaries ==
  << <<"0">>, <<"1">>, <<"-", "1">>,
     <<"9", "9", "9">>, <<"1", "0", "0", "0">>, <<"1", "0", "0", "1">>,
     <<"9", "9", "9", "9">>, <<"1", "0", "0", "0", "0">>,
     <<"2", "1", "4", "7", "4", "8", "3", "6", "4", "7">>,
     <<"-", "2", "1", "4", "7", "4", "8", "3", "6", "4", "8">> >>

\* Generate's loop `for i := 1; i <= count; i++ { payloads = append(...) }`
RECURSIVE Sequential(_, _, _)
Sequential(i, cnt, acc) ==
  IF i <= cnt THEN Sequential(i + 1, cnt, Append(acc, Sprintf_d(i))) ELSE acc

\* variant of Generate: a boundary value the sequential part already holds is
\* not appended again
Generate_dedup(cnt) ==
  LET seq == Sequential(1, cnt, <<>>)
  IN seq \o SelectSeq(boundaries, LAMBDA b : \A i \in DOMAIN seq : seq[i] # b)

\* NumericGenerator.Generate(count)
Generate(cnt) == Sequential(1, cnt, <<>>) \o boundaries

\* a caller picks a count; a negative one is an int like any other
GenInit ==
  /\ count \in -1..MaxCount
  /\ generated = <<>>

CallGenerate ==
  /\ generated = <<>>
  /\ generated' = <<Generate(count)>>
  /\ UNCHANGED count
  /\ UNCHANGED notGen

GenNext == CallGenerate

InitGen ==
  EngineInit /\ VerdictIdle /\ FilesIdle /\ JobsIdle /\ AuthIdle /\ ScanIdle /\ IdIdle /\ GenInit
    /\ ProxyIdle

GenSpec == InitGen /\ [][GenNext]_vars

\* ------------------------------------------------------------ proxy manager
\* longest list handed to NewProxyManager
MaxList == 2
\* GetNext calls followed
MaxDraws == 3
\* AddProxy and RemoveProxy calls followed
MaxMods == 1

\* proxy strings: two spellings of one proxy, another proxy, and a string
\* url.Parse rejects ("missing protocol scheme")
ProxyStrings == {"http://p1", "HTTP://p1", "socks5://p2", ":bad"}

\* url.Parse(p): <<>> for an error, else <<u>>; the scheme is lower-cased
url_Parse(p) ==
  CASE p = "http://p1" -> <<[Scheme |-> "http", Host |-> "p1"]>>
    [] p = "HTTP://p1" -> <<[Scheme |-> "http", Host |-> "p1"]>>
    [] p = "socks5://p2" -> <<[Scheme |-> "socks5", Host |-> "p2"]>>
    [] OTHER -> <<>>

\* (*url.URL).String()
URL_String(u) ==
  CASE u.Scheme = "http" /\ u.Host = "p1" -> "http://p1"
    [] u.Scheme = "socks5" /\ u.Host = "p2" -> "socks5://p2"

\* NewProxyManager's loop: the entries url.Parse accepts, in list order
RECURSIVE ParseAll(_)
ParseAll(proxyList) ==
  IF proxyList = <<>>
    THEN <<>>
    ELSE url_Parse(Head(proxyList)) \o ParseAll(Tail(proxyList))

RECURSIVE SeqsUpTo(_, _)
SeqsUpTo(S, n) ==
  IF n = 0
    THEN {<<>>}
    ELSE LET shorter == SeqsUpTo(S, n - 1)
         IN shorter \cup {Append(q, x) : q \in shorter, x \in S}

\* NewProxyManager(proxyList)
NewProxyManager(proxyList) ==
  /\ proxies = ParseAll(proxyList)
  /\ enabled = (Len(proxyList) > 0)
  /\ current = 0

ProxyInit ==
  /\ \E proxyList \in SeqsUpTo(ProxyStrings, MaxList) : NewProxyManager(proxyList)
  /\ gpc = [g \in GoIds |-> "idle"]
  /\ gidx = [g \in GoIds |-> 0]
  /\ draws = <<>>
  /\ epoch = 0

\* pm.Count()
Count == Len(proxies)

\* pm.IsEnabled()
IsEnabled == enabled

\* nobody holds pm.mu for reading
NoReader == \A g \in GoIds : gpc[g] = "idle"

GetNextCalls == Len(draws) + Cardinality({g \in GoIds : gpc[g] # "idle"})

\* GetNext: pm.mu.RLock()
GetNextLock(g) ==
  /\ gpc[g] = "idle"
  /\ GetNextCalls < MaxDraws
  /\ gpc' = [gpc EXCEPT ![g] = "locked"]
  /\ UNCHANGED <<proxies, current, enabled, gidx, draws, epoch>>
  /\ UNCHANGED notProxy

\* variant of GetNextDraw: idx := pm.current; pm.current = idx + 1 as a load
\* and a store, so a goroutine may load the value another goroutine, still
\* inside GetNext, has loaded
GetNextDraw_loadStore(g) ==
  /\ gpc[g] = "locked"
  /\ IF Len(proxies) = 0
       THEN /\ draws' = Append(draws, [k |-> -1, list |-> proxies, pos |-> -1,
                                       ret |-> <<>>, epoch |-> epoch])
            /\ gpc' = [gpc EXCEPT ![g] = "idle"]
            /\ UNCHANGED <<current, gidx>>
       ELSE /\ \E v \in {current} \cup {gidx[h] : h \in {h \in GoIds : gpc[h] = "drawn"}} :
                 /\ gidx' = [gidx EXCEPT ![g] = v]
                 /\ current' = IF v + 1 > current THEN v + 1 ELSE current
            /\ gpc' = [gpc EXCEPT ![g] = "drawn"]
            /\ UNCHANGED draws
  /\ UNCHANGED <<proxies, enabled, epoch>>
  /\ UNCHANGED notProxy

\* GetNext: if len(pm.proxies) == 0 { return nil };
\*          idx := atomic.AddUint64(&pm.current, 1) - 1
GetNextDraw(g) ==
  /\ gpc[g] = "locked"
  /\ IF Len(proxies) = 0
       THEN /\ draws' = Append(draws, [k |-> -1, list |-> proxies, pos |-> -1,
                                       ret |-> <<>>, epoch |-> epoch])
            /\ gpc' = [gpc EXCEPT ![g] = "idle"]
            /\ UNCHANGED <<current, gidx>>
       ELSE /\ gidx' = [gidx EXCEPT ![g] = current]
            /\ current' = current + 1
            /\ gpc' = [gpc EXCEPT ![g] = "drawn"]
            /\ UNCHANGED draws
  /\ UNCHANGED <<proxies, enabled, epoch>>
  /\ UNCHANGED notProxy

\* GetNext: return pm.proxies[idx%uint64(len(pm.proxies))]; deferred RUnlock
GetNextReturn(g) ==
  /\ gpc[g] = "drawn"
  /\ LET pos == gidx[g] % Len(proxies)
     IN draws' = Append(draws, [k |-> gidx[g], list |-> proxies, pos |-> pos,
                                ret |-> <<proxies[pos + 1]>>, epoch |-> epoch])
  /\ gpc' = [gpc EXCEPT ![g] = "idle"]
  /\ UNCHANGED <<proxies, current, enabled, gidx, epoch>>
  /\ UNCHANGED notProxy

\* pm.AddProxy(proxyURL); the write lock waits for the readers
AddProxy(proxyURL) ==
  /\ epoch < MaxMods
  /\ LET u == url_Parse(proxyURL)
     IN IF u = <<>>
          THEN UNCHANGED <<proxies, enabled>>
          ELSE /\ NoReader
               /\ proxies' = proxies \o u
               /\ enabled' = TRUE
  /\ epoch' = epoch + 1
  /\ UNCHANGED <<current, gpc, gidx, draws>>
  /\ UNCHANGED notProxy

\* RemoveProxy's loop: the list without its first entry whose String() is
\* proxyURL
RECURSIVE RemoveFirst(_, _)
RemoveFirst(list, proxyURL) ==
  IF list = <<>>
    THEN <<>>
    ELSE IF URL_String(Head(list)) = proxyURL
           THEN Tail(list)
           ELSE <<Head(list)>> \o RemoveFirst(Tail(list), proxyURL)

\* pm.RemoveProxy(proxyURL)
RemoveProxy(proxyURL) ==
  /\ epoch < MaxMods
  /\ NoReader
  /\ proxies' = RemoveFirst(proxies, proxyURL)
  /\ enabled' = (Len(proxies') > 0)
  /\ epoch' = epoch + 1
  /\ UNCHANGED <<current, gpc, gidx, draws>>
  /\ UNCHANGED notProxy

ProxyNext ==
  \/ \E g \in GoIds : GetNextLock(g) \/ GetNextDraw(g) \/ GetNextReturn(g)
  \/ \E proxyURL \in ProxyStrings : AddProxy(proxyURL) \/ RemoveProxy(proxyURL)

InitProxy ==
  EngineInit /\ VerdictIdle /\ FilesIdle /\ JobsIdle /\ AuthIdle /\ ScanIdle /\ IdIdle /\ GenIdle
    /\ ProxyInit

ProxySpec == InitProxy /\ [][ProxyNext]_vars

\* ------------------------------------------------------------ specifications
Worker(w) ==
  \/ WorkerSelect(w)
  \/ WorkerRateLimit(w)
  \/ WorkerDispatch(w)
  \/ WorkerSleep(w)
  \/ WorkerTotal(w)
  \/ WorkerOutcome(w)
  \/ WorkerSend(w)

Feeder ==
  \/ Start
  \/ FeederSubmit
  \/ FeederCloseQueue
  \/ FeederWaitAndClose

\* the engine driven by runScan's feeder and collector, plus a caller that may
\* fire the token
EngineNext ==
  \/ Feeder
  \/ \E w \in WorkerIds : Worker(w)
  \/ Receive
  \/ Cancel

\* the same with runScan's signal handler
PipeNext ==
  \/ EngineNext
  \/ Signal

\* the pipeline plus callers of Stop and CloseQueue at arbitrary moments
Next ==
  \/ PipeNext
  \/ StopCancel
  \/ StopCloseQueue
  \/ StopWaitAndClose
  \/ Drain
  \/ CallerCloseQueue

Spec == Init /\ [][Next]_vars

PipeSpec == Init /\ [][PipeNext]_vars

\* the engine with its feeder, its collector and a caller of Cancel, no signal
EngineSpec == Init /\ [][EngineNext]_vars

\* The Go scheduler runs a runnable goroutine: while some worker or the feeder
\* can take its next step (a pending request returns, a sleep ends), one of
\* them does. This is weaker than fairness to each goroutine. Nothing is assumed
\* of the result drain or of who fires the token.
FairPipeSpec ==
  /\ Init /\ [][EngineNext]_vars
  /\ WF_vars(Feeder \/ \E w \in WorkerIds : Worker(w))

\* The same, and runScan's collector goroutine is scheduled too: a result that
\* waits in Results is received.
FairDrainSpec ==
  /\ Init /\ [][EngineNext]_vars
  /\ WF_vars(Feeder \/ \E w \in WorkerIds : Worker(w))
  /\ WF_vars(Receive)

\* ---- target templates and word lists
\* templates: one placeholder, two placeholders, a trailing slash, an unclosed
\* placeholder without trailing slash, the empty string
Templates ==
  { <<"u", "/">> \o Placeholder \o <<"/", "p">>,
    Placeholder \o Placeholder,
    <<"u", "/">>,
    <<"u", "{", "I", "D">>,
    <<>> }

\* the word list read from any of its entries on
Rotations ==
  { [j \in Jobs |-> Wordlist[((j - 1 + k) % Len(Wordlist)) + 1]] :
      k \in 0..(Len(Wordlist) - 1) }

JobsInit ==
  /\ url \in Templates
  /\ payloads \in Rotations
  /\ dispatched = {}

\* a scan that nobody interrupts
RunNext ==
  \/ Feeder
  \/ \E w \in WorkerIds : Worker(w)
  \/ Receive

InitUrl ==
  EngineInit /\ VerdictIdle /\ FilesIdle /\ JobsInit /\ AuthIdle /\ ScanIdle /\ IdIdle /\ GenIdle
    /\ ProxyIdle

UrlSpec == InitUrl /\ [][RunNext]_vars

\* a scan that only an interrupt (SIGINT/SIGTERM) may stop
SignalNext ==
  \/ RunNext
  \/ Signal

SignalSpec == Init /\ [][SignalNext]_vars

\* ------------------------------------------------------------ the scan command
\* Execute: rootCmd.Execute() parses the flags; an error (the required --url
\* missing, an unknown flag) is printed and the process exits with 1
Execute ==
  /\ scanpc = "flags"
  /\ \/ scanpc' = "payloads" /\ UNCHANGED exitCode
     \/ scanpc' = "exited" /\ exitCode' = <<1>>
  /\ UNCHANGED <<invalidResp, validResp, fileVars>>
  /\ UNCHANGED notScan

\* runScan: the payloads are generated or loaded; a word list that cannot be
\* read makes runScan return
ScanPayloads ==
  /\ scanpc = "payloads"
  /\ \/ scanpc' = "invalid" /\ UNCHANGED exitCode
     \/ scanpc' = "exited" /\ exitCode' = <<0>>
  /\ UNCHANGED <<invalidResp, validResp, fileVars>>
  /\ UNCHANGED notScan

\* runScan: invalidResp, err := c.Request().Get(invalidURL); on err it logs and
\* returns, and a Run function that returns ends the process with 0
ScanInvalidBaseline ==
  /\ scanpc = "invalid"
  /\ \/ /\ invalidResp' = "ok"
        /\ scanpc' = "valid"
        /\ UNCHANGED exitCode
     \/ /\ invalidResp' = "failed"
        /\ scanpc' = "exited"
        /\ exitCode' = <<0>>
  /\ UNCHANGED <<validResp, fileVars>>
  /\ UNCHANGED notScan

\* runScan: validResp = invalidResp as fallback; with an ID in the URL and
\* cookies the valid baseline is requested and replaces it when err == nil.
\* Then the detector, the signal handler and the engine are set up.
ScanValidBaseline ==
  /\ scanpc = "valid"
  /\ validResp' \in {"ok", "failed", "skipped"}
  /\ scanpc' = "fuzz"
  /\ UNCHANGED <<invalidResp, exitCode, fileVars>>
  /\ UNCHANGED notScan

\* runScan: <-done (the collector has read Results to its close), the report
\* is saved by a reporter made with NewReporter("json"), runScan returns
ScanReport ==
  /\ scanpc = "fuzz"
  /\ resultsClosed /\ results = <<>>
  /\ \E ok \in BOOLEAN : generateJSON("report", ok)
  /\ scanpc' = "exited"
  /\ exitCode' = <<0>>
  /\ UNCHANGED <<invalidResp, validResp, umask, format>>
  /\ UNCHANGED notScan

ScanInit ==
  /\ scanpc = "flags"
  /\ invalidResp = "none"
  /\ validResp = "none"
  /\ exitCode = <<>>

\* the command from its start; the engine, the feeder, the collector and the
\* signal handler run between the baselines and the report
ScanNext ==
  \/ Execute
  \/ ScanPayloads
  \/ ScanInvalidBaseline
  \/ ScanValidBaseline
  \/ scanpc = "fuzz" /\ SignalNext
  \/ ScanReport

InitScan ==
  EngineInit /\ VerdictIdle /\ FilesIdle /\ JobsIdle /\ AuthIdle /\ ScanInit /\ IdIdle /\ GenIdle
    /\ ProxyIdle

ScanSpec == InitScan /\ [][ScanNext]_vars

\* ------------------------------------------------------------ claims: engine
\* the pipeline ended the normal way: the feeder's Start, Submit calls,
\* CloseQueue and WaitAndClose have all returned and the token never fired
NormalTermination == fpc = "done" /\ ~cancelled /\ panic = ""

\* C1: a job whose Submit returned true gets at most one FuzzResult on Results
\* in every execution, and exactly one by the time WaitAndClose has closed
\* Results when the token never fired.
C1_OneResultPerAcceptedJob ==
  /\ \A j \in Jobs : emitted[j] <= 1
  /\ \A j \in Jobs : emitted[j] = 1 => j \in accepted
  /\ NormalTermination => \A j \in accepted : emitted[j] = 1

C1_Witness ==
  /\ NormalTermination
  /\ resultsClosed
  /\ accepted = Jobs
  /\ \A j \in Jobs : emitted[j] = 1

\* C2: when the token has already fired at the moment Submit(job) is called,
\* Submit returns false and leaves the job queue as it was, whatever the
\* queue's occupancy.
C2_SubmitAfterCancelRejects ==
  [][(fpc = "submit" /\ fcallCancelled /\ fpc' # "submit")
       => (queue' = queue /\ accepted' = accepted)]_vars

\* C3: once the token has fired, every worker exits (wherever it was waiting),
\* a feeder waiting in Submit gets its answer, and WaitAndClose returns.
Quiescent ==
  /\ \A w \in WorkerIds : wpc[w] = "exited"
  /\ fpc = "done"
  /\ resultsClosed

C3_NoWorkerBlockedAfterCancel == cancelled ~> Quiescent

\* reached with the token fired, Results full and undrained, and an accepted
\* job whose result was dropped on the way out
C3_Witness ==
  /\ cancelled
  /\ Quiescent
  /\ Len(results) = queueSize
  /\ \E j \in accepted : emitted[j] = 0

\* C4: CloseQueue and Stop may be repeated and combined freely: no call fails
\* and the job queue is closed at most once.
C4_CloseIsIdempotent == panic # "close of closed channel: Queue"

\* C5: after normal termination total = success + failed.
C5_TotalIsSuccessPlusFailed ==
  NormalTermination => stats.total = stats.success + stats.failed

C5_Witness ==
  /\ NormalTermination
  /\ stats.success >= 1
  /\ stats.failed >= 1

\* C6: success + failed <= total in every reachable state, also in the middle
\* of a job and after cancellation.
C6_SuccessPlusFailedAtMostTotal == stats.success + stats.failed <= stats.total

\* a worker has counted the request but not yet its outcome, after cancellation
C6_Witness ==
  /\ cancelled
  /\ \E w \in WorkerIds : wpc[w] = "outcome"
  /\ stats.success + stats.failed < stats.total

\* ------------------------------------------------------------ claims: verdicts
InRange(x, lo, hi) == x >= lo /\ x < hi

\* the similarity the specification gives the comparator: a value in [0,1]
ClampedSimilarity(baseline, r) ==
  LET diff == Abs(baseline.len - r.len)
  IN IF baseline.len > 0
       THEN (IF diff >= baseline.len THEN Frac(0, 1)
             ELSE Frac(baseline.len - diff, baseline.len))
       ELSE IF r.len = 0 THEN Frac(1, 1) ELSE Frac(0, 1)

StatusGapRule(d, r) ==
  /\ InRange(r.status, 200, 300)
  /\ d.InvalidComparator # <<>>
  /\ d.InvalidComparator[1].Baseline.status \in {401, 403, 404}

DivergenceRule(d, r) ==
  /\ InRange(r.status, 200, 300)
  /\ d.ValidComparator # <<>>
  /\ FracLess(ClampedSimilarity(d.ValidComparator[1].Baseline, r), d.Threshold)
  /\ r.len > 100
  /\ 2 * r.len > d.ValidComparator[1].Baseline.len

PIIRule(d, r) == d.CheckPII /\ r.pii # {}

\* C7: Detect(r) is true exactly when the status-gap rule, the content
\* divergence rule (similarity in [0,1] below the threshold, both size guards)
\* or the PII rule fires.
C7_DetectIffSomeRuleFires ==
  detected # <<>> =>
    (detected[1] <=> (StatusGapRule(det, resp) \/ DivergenceRule(det, resp)
                        \/ PIIRule(det, resp)))

\* C8: DetectWithEvidence(r).IsVulnerable = Detect(r) for every response and
\* detector.
C8_EvidenceVerdictEqualsDetect ==
  (detected # <<>> /\ evidence # <<>>) => evidence[1].IsVulnerable = detected[1]

\* C9: Compare's similarity lies in [0,1] and is 1 - min(1, diff/baselineLen)
\* for a non-empty baseline, 1 or 0 for an empty one.
C9_SimilarityInUnitInterval ==
  comparison # <<>> =>
    LET sim == comparison[1].BodySimilarity
    IN /\ ~FracLess(sim, Frac(0, 1))
       /\ ~FracLess(Frac(1, 1), sim)
       /\ FracEq(sim, ClampedSimilarity(det.ValidComparator[1].Baseline, resp))

\* C10: a finding is CRITICAL for 2xx + invalid baseline 401/403 + PII, else
\* HIGH for 2xx + invalid baseline 401/403/404, else MEDIUM for 2xx with a body
\* over 100 bytes and a 2xx invalid baseline, else LOW.
SpecSeverity(d, r) ==
  LET ok == InRange(r.status, 200, 300)
      inv == IF d.InvalidComparator # <<>>
               THEN d.InvalidComparator[1].Baseline.status ELSE 0
  IN IF ok /\ inv \in {401, 403} /\ PIIRule(d, r) THEN "CRITICAL"
     ELSE IF ok /\ inv \in {401, 403, 404} THEN "HIGH"
     ELSE IF ok /\ r.len > 100 /\ InRange(inv, 200, 300) THEN "MEDIUM"
     ELSE "LOW"

C10_SeverityFollowsBaselineAndPII ==
  \A i \in 1..Len(findings) : findings[i].Severity = SpecSeverity(det, resp)

\* ---------------------------------------------------------- claims: reporter
\* C11: every recorded finding's evidence is at most 1000 characters long, the
\* truncation marker included, and evidence of 1000 characters or fewer is
\* stored as it was (the evidence is the response body, session.go:334).
C11_EvidenceAtMost1000 ==
  \A i \in 1..Len(findings) :
    /\ findings[i].EvidenceLen <= 1000
    /\ resp.len <= 1000 => findings[i].EvidenceLen = resp.len

\* C12: every file the tool creates gets mode 0600, and the report file has
\* mode 0600 once GenerateReport has succeeded (either format).
C12_FilesHaveMode0600 ==
  /\ \A p \in created : files[p] = <<Mode0600>>
  /\ "report" \in wrote => files["report"] = <<Mode0600>>

\* ------------------------------------------------------------- claims: URLs
\* substitute(T, p) as the specification words it
Substitute(T, p) ==
  IF \E i \in 1..(Len(T) - 3) : SubSeq(T, i, i + 3) = Placeholder
    THEN LET first == CHOOSE i \in 1..(Len(T) - 3) :
                        /\ SubSeq(T, i, i + 3) = Placeholder
                        /\ \A k \in 1..(i - 1) : SubSeq(T, k, k + 3) # Placeholder
         IN SubSeq(T, 1, first - 1) \o p \o SubSeq(T, first + 4, Len(T))
    ELSE IF T # <<>> /\ T[Len(T)] = "/"
           THEN T \o p
           ELSE T \o <<"/">> \o p

Owner == sessions[1]

HasAccess(name) ==
  ~probes[name].err /\ probes[name].status >= 200 /\ probes[name].status < 300

BodyLen(name) == IF probes[name].err THEN 0 ELSE probes[name].len

\* session X passes the similarity test against the owner's body
SimilarToOwner(X) ==
  LET d == abs(BodyLen(Owner) - BodyLen(X))
  IN d < 50 \/ (BodyLen(Owner) # 0 /\ d * 10 < BodyLen(Owner))

\* C14: TestEndpoint is a function of the ordered session list and the probe
\* outcomes: calls on the same tester against the same responses return the
\* same verdict and reason, and for sessions A then B with A = 200/500,
\* B = 200/505 and no session denied the answer is "B accesses A's resource".
C14_VerdictIsDeterministic ==
  /\ \A i, j \in DOMAIN matrix : matrix[i] = matrix[j]
  /\ \A i \in DOMAIN matrix :
       ( /\ sessions = <<"A", "B">>
         /\ probes["A"] = [err |-> FALSE, status |-> 200, len |-> 500]
         /\ probes["B"] = [err |-> FALSE, status |-> 200, len |-> 505]
         /\ ~HasAccess("no_session") )
       => matrix[i] = [IsVulnerable |-> TRUE,
                       Reason |-> [kind |-> "session", name |-> "B", owner |-> "A"]]

\* C15: when the probe without a session has access, TestEndpoint reports
\* vulnerable with the unauthenticated-access reason, whatever the owner's
\* status and whoever else has access.
C15_AnonymousAccessIsReported ==
  \A i \in DOMAIN matrix :
    (sessions # <<>> /\ HasAccess("no_session"))
      => /\ matrix[i].IsVulnerable
         /\ matrix[i].Reason.kind = "unauthenticated"

\* C16: when the probe without a session has no access, TestEndpoint reports
\* vulnerable exactly when some session other than the owner has access and
\* its body length is within 50 bytes or within 10% of the owner's.
C16_SessionAccessIffSimilar ==
  \A i \in DOMAIN matrix :
    (sessions # <<>> /\ ~HasAccess("no_session"))
      => (matrix[i].IsVulnerable <=>
            \E n \in 2..Len(sessions) :
              HasAccess(sessions[n]) /\ SimilarToOwner(sessions[n]))

\* ------------------------------------------------------ claims: interruption
\* C17: an interrupt fires the token the engine observes: once the signal has
\* been handled no Submit is accepted and no worker takes a job off the queue.
C17_SignalStopsEngine ==
  [][sigCancelled => (accepted' = accepted /\ Len(queue') >= Len(queue))]_vars

\* ------------------------------------------------------------ claims: scan
\* C18: the engine is started only with both baselines taken, and a baseline
\* request that fails aborts the scan with the engine never started.
C18_EngineStartsAfterBothBaselines ==
  started => (invalidResp = "ok" /\ validResp # "failed")

\* C19: a failed invalid-baseline request aborts the scan before any job is
\* submitted and the process exits with code 1.
C19_InvalidBaselineFailureExits1 ==
  (invalidResp = "failed" /\ scanpc = "exited")
    => (~started /\ accepted = {} /\ exitCode = <<1>>)

\* ------------------------------------------------------ claims: identifiers
\* the category the specification gives an identifier: the first of numeric,
\* md5, sha1, uuid, base64 whose predicate it satisfies, else unknown
FirstCategory(s) ==
  IF s # <<>> /\ AllIn(s, Digit) THEN "numeric"
  ELSE IF Len(s) = 32 /\ AllIn(s, Digit \cup LowerHex \cup UpperHex) THEN "md5"
  ELSE IF Len(s) = 40 /\ AllIn(s, Digit \cup LowerHex \cup UpperHex) THEN "sha1"
  ELSE IF uuid_Parse(s) THEN "uuid"
  ELSE IF MatchBase64(s) /\ Len(s) > 4 THEN "base64"
  ELSE "unknown"

\* C20: every DetectType(id) call returns the first category, in the order
\* numeric, md5, sha1, uuid, base64, that id satisfies (unknown when none),
\* so repeated calls agree.
C20_DetectTypeFollowsPrecedence ==
  \A i \in DOMAIN idTypes : idTypes[i] = FirstCategory(ident)

\* ------------------------------------------------------------ claims: generators
\* the value of a string of decimal digits
RECURSIVE DecimalValue(_)
DecimalValue(s) ==
  IF s = <<>>
    THEN 0
    ELSE DecimalValue(SubSeq(s, 1, Len(s) - 1)) * 10
           + (CHOOSE d \in 0..9 : DigitChars[d + 1] = s[Len(s)])

\* s is the decimal string of n >= 0: digits only, no leading zero, value n
IsDecimalOf(s, n) ==
  /\ s # <<>>
  /\ AllIn(s, Digit)
  /\ (Len(s) > 1 => s[1] # "0")
  /\ DecimalValue(s) = n

BoundaryValues ==
  << <<"0">>, <<"1">>, <<"-", "1">>, <<"9", "9", "9">>, <<"1", "0", "0", "0">>,
     <<"1", "0", "0", "1">>, <<"9", "9", "9", "9">>, <<"1", "0", "0", "0", "0">>,
     <<"2", "1", "4", "7", "4", "8", "3", "6", "4", "7">>,
     <<"-", "2", "1", "4", "7", "4", "8", "3", "6", "4", "8">> >>

\* C21: for a count N >= 0, Generate returns exactly N+10 strings: the decimal
\* strings of 1..N in order, then 0, 1, -1, 999, 1000, 1001, 9999, 10000,
\* 2147483647, -2147483648 in that order, with nothing removed as a duplicate.
C21_SequentialThenBoundaries ==
  (generated # <<>> /\ count >= 0) =>
    LET out == generated[1]
    IN /\ Len(out) = count + 10
       /\ \A i \in 1..count : IsDecimalOf(out[i], i)
       /\ \A k \in 1..10 : out[count + k] = BoundaryValues[k]

\* reached with the largest count of the model: two-digit numbers have been
\* formatted and the boundary value 1 repeats a string of the sequential part
C21_Witness ==
  /\ generated # <<>>
  /\ count = MaxCount
  /\ \E i \in 1..count : generated[1][i] = generated[1][count + 2]

\* ------------------------------------------------------------ claims: proxy manager
\* the GetNext calls that drew a counter value, returned or still inside
DrawnValues ==
  [i \in {i \in DOMAIN draws : draws[i].k >= 0} |-> draws[i].k]

\* C22: on a list of n >= 1 entries that is not modified meanwhile, the GetNext
\* calls of all goroutines draw distinct counter values, the call that draws k
\* returns the entry at index k mod n, and calls that drew n consecutive values
\* return n different list positions; on an empty list GetNext returns nil.
C22_RoundRobin ==
  /\ \A i, j \in DOMAIN draws :
       (i # j /\ draws[i].k >= 0) => draws[i].k # draws[j].k
  /\ \A i \in DOMAIN draws, g \in GoIds :
       gpc[g] = "drawn" => draws[i].k # gidx[g]
  /\ \A g, h \in GoIds : (g # h /\ gpc[g] = "drawn" /\ gpc[h] = "drawn") => gidx[g] # gidx[h]
  /\ \A i \in DOMAIN draws :
       LET d == draws[i]
           n == Len(d.list)
       IN IF n = 0
            THEN d.ret = <<>>
            ELSE /\ d.k >= 0
                 /\ d.pos = d.k % n
                 /\ d.ret = <<d.list[(d.k % n) + 1]>>
  /\ \A i \in DOMAIN draws :
       LET n == Len(draws[i].list)
           round == {j \in DOMAIN draws :
                       /\ draws[j].epoch = draws[i].epoch
                       /\ draws[j].k >= draws[i].k
                       /\ draws[j].k < draws[i].k + n}
       IN \A a, b \in round : a # b => draws[a].pos # draws[b].pos

\* reached when two goroutines were inside GetNext together (the later draw
\* returned first), a list of two has been gone round once and the third call
\* came back to its first entry
C22_Witness ==
  /\ Len(draws) = MaxDraws
  /\ \A i \in DOMAIN draws : Len(draws[i].list) = 2 /\ draws[i].epoch = 0
  /\ \E i \in DOMAIN draws : draws[i].k = 2 /\ draws[i].pos = 0
  /\ \E i \in DOMAIN draws : draws[i].k = 1 /\ draws[i].pos = 1
  /\ \E i \in 1..(Len(draws) - 1) : draws[i].k > draws[i + 1].k

\* C23: after NewProxyManager on any list, malformed entries included, and
\* after any AddProxy and RemoveProxy calls, IsEnabled() is true exactly when
\* Count() > 0.
C23_EnabledIffNonEmpty == IsEnabled <=> (Count > 0)

\* ------------------------------------------------------------ claims: engine, continued
\* C24: Cancel() is permitted in every state of a live engine (created,
\* running, draining, stopped); once the token has fired it stays fired; and a
\* Cancel on a fired token changes nothing.
C24_CancelIsStickyAndIdempotent ==
  [][/\ Running => ENABLED Cancel
     /\ cancelled => cancelled'
     /\ (cancelled /\ Cancel) => UNCHANGED vars]_vars

\* reached when the token fired before Start and the pipeline has since run
\* to its end: workers exited, both channels closed
C24_Witness ==
  /\ cancelled
  /\ started
  /\ accepted = {}
  /\ \A w \in WorkerIds : wpc[w] = "exited"
  /\ queueClosed /\ resultsClosed
  /\ Running

\* C25 as stated: a worker makes at most max_retries (3) dispatch attempts for
\* one job.
C25_AtMostMaxRetriesAttempts == \A w \in WorkerIds : tries[w] <= MaxRetries

\* C25 amended: a worker makes at most max_retries + 1 dispatch attempts for one
\* job, the first attempt and max_retries retries; a job is finished as failed
\* with a transport error after exactly max_retries + 1 failed attempts.
C25_AtMostMaxRetriesPlusOneAttempts ==
  \A w \in WorkerIds :
    /\ tries[w] <= MaxRetries + 1
    /\ (wpc[w] \in {"total", "outcome"} /\ werr[w] = "transport")
         => tries[w] = MaxRetries + 1
    /\ (wpc[w] = "send" /\ wres[w].Error = "transport") => tries[w] = MaxRetries + 1

\* reached when a job has failed on every attempt and its error result is
\* about to be sent
C25_Witness ==
  \E w \in WorkerIds :
    /\ wpc[w] = "send"
    /\ wres[w].Error = "transport"
    /\ tries[w] = MaxRetries + 1
    /\ wattempt[w] = MaxRetries

\* C26: once the token has fired no worker begins a retry backoff sleep: a
\* worker whose rate-limit wait or request fails after the cancellation goes
\* on to exit without sleeping first.
C26_NoSleepBeginsAfterCancel ==
  [][cancelled => \A w \in WorkerIds : (wpc'[w] = "sleep" => wpc[w] = "sleep")]_vars

\* the result processJob returned for job with a transport error
TransportFailure(job) ==
  [Job |-> job, Error |-> "transport", StatusCode |-> 0, ContentLen |-> 0,
   IsVulnerable |-> FALSE]

\* C27: when every attempt for a job failed with a transport error, the result
\* for it has the error set, status code 0, body length 0 and is not
\* vulnerable, it is emitted at most once, and the job has incremented total
\* and failed by one each and success and vuln not at all.
C27_TransportFailureResult ==
  /\ \A w \in WorkerIds :
       (wpc[w] = "send" /\ tries[w] = MaxRetries + 1 /\ werr[w] = "transport") =>
         /\ wres[w] = TransportFailure(wjob[w])
         /\ counted[w] = [total |-> 1, success |-> 0, failed |-> 1, vuln |-> 0]
  /\ \A i \in DOMAIN results :
       results[i].Error = "transport" => results[i] = TransportFailure(results[i].Job)
  /\ \A j \in Jobs : emitted[j] <= 1

\* reached when the failure of a job the detector would flag has been emitted
\* after all its attempts failed
C27_Witness ==
  /\ \E i \in DOMAIN results :
       results[i].Error = "transport" /\ results[i].Job \in VulnerableJobs
  /\ stats.failed = 1
  /\ stats.vuln = 0
  /\ \E w \in WorkerIds :
       wjob[w] \in VulnerableJobs /\ tries[w] = MaxRetries + 1 /\ counted[w].failed = 1

\* C28: a job increments total at most once however many attempts it needs,
\* total never exceeds the number of accepted submissions, and it equals that
\* number when the engine has terminated normally.
C28_TotalCountsAcceptedJobs ==
  /\ \A w \in WorkerIds : counted[w].total <= 1
  /\ stats.total <= Cardinality(accepted)
  /\ NormalTermination => stats.total = Cardinality(accepted)

\* reached when every payload was accepted, one job needed all its retries and
\* the engine has terminated normally
C28_Witness ==
  /\ NormalTermination
  /\ accepted = Jobs
  /\ stats.total = MaxJobs
  /\ \E w \in WorkerIds : tries[w] = MaxRetries + 1 /\ counted[w].total = 1

\* the collector's `for result := range fe.Results` has ended
ReceiveLoopEnded == resultsClosed /\ results = <<>>

\* C29: in every execution of the scan pipeline, with Cancel firing at any
\* moment, Results is closed only after every worker has exited, no worker
\* sends on the closed Results channel, and the consumer's receive loop ends.
C29_ResultsClosedAfterWorkersExit ==
  /\ [](resultsClosed => \A w \in WorkerIds : wpc[w] = "exited")
  /\ [](panic # "send on closed channel: Results")
  /\ <>ReceiveLoopEnded

\* reached when the token fired in mid-run: one result was emitted and
\* received, another job's result was dropped by its exiting worker, and the
\* receive loop has ended
C29_Witness ==
  /\ ReceiveLoopEnded
  /\ cancelled
  /\ \A w \in WorkerIds : wpc[w] = "exited"
  /\ \E j \in accepted : emitted[j] = 1
  /\ \E j \in accepted : emitted[j] = 0 /\ \E w \in WorkerIds : wjob[w] = j

\* C30: Submit never sends on a closed job queue: a Submit that runs together
\* with, or after, Stop or CloseQueue returns true or false without failing.
C30_SubmitNeverSendsOnClosedQueue == panic # "send on closed channel: Queue"

====
